---- MODULE Spec2Model ----
(***************************************************************************)
(* Model of build_diagrams.py: the Mermaid-in-Typst diagram processor.     *)
(*                                                                         *)
(* Text is a sequence of characters (one-character strings); the word      *)
(* "mermaid" of the fence, the pieces of the generated #figure(...) markup *)
(* and a SHA-1 hex digest are each one atomic element.  SHA-1 is modelled  *)
(* as collision free: the digest of a text is a tag around that text.      *)
(***************************************************************************)
EXTENDS Naturals, Sequences, FiniteSets, TLC

VARIABLES
    pc,                 \* position of the script: main, the steps of process(), exit
    run,                \* number of the current invocation of the script
    file_path,          \* MermaidProcessor.file_path (a file name in the document's directory)
    content,            \* MermaidProcessor.content
    diagrams,           \* MermaidProcessor.diagrams
    idx,                \* position of the render loop of process() in self.diagrams
    results,            \* output_path returned by render_diagram for each diagram so far
    processed_content,  \* the text process_content() returned
    files,              \* the document's directory: file name -> text
    images,             \* the image files (names) in the document's directory
    cwd,                \* the process's working directory
    invocations,        \* subprocesses launched during the current run, in order
    file_ops,           \* reads and writes of document files by the current run
    exit_status,        \* exit status of the current run ("none" while it runs)
    history             \* the summary of the run before the current one, if any

vars == <<pc, run, file_path, content, diagrams, idx, results, processed_content,
          files, images, cwd, invocations, file_ops, exit_status, history>>

----------------------------------------------------------------------------
(* Characters *)

BT == "BT"            \* one backtick
TAG == "mermaid"
NL == "\n"
PCT == "%"
BANG == "!"
SP == " "
DOT == "."

\* The literal parts of the regular expression of extract_diagrams and of the
\* search text of process_content.
FenceOpen == <<BT, BT, BT, TAG, NL>>
FenceClose == <<NL, BT, BT, BT>>

----------------------------------------------------------------------------
(* Python's str operations *)

Min(S) == CHOOSE m \in S : \A k \in S : m <= k

\* s[i:i+len(p)] == p, for a 1-based i
IsAt(s, p, i) == /\ i >= 1
                 /\ i + Len(p) - 1 <= Len(s)
                 /\ SubSeq(s, i, i + Len(p) - 1) = p

\* str.find from a 1-based position; 0 when there is no occurrence
Find(s, p, from) ==
    LET hits == {i \in from..(Len(s) - Len(p) + 1) : IsAt(s, p, i)}
    IN  IF hits = {} THEN 0 ELSE Min(hits)

StartsWith(s, p) == IsAt(s, p, 1)

RECURSIVE Split(_, _)
Split(s, sep) ==
    LET i == Find(s, sep, 1)
    IN  IF i = 0 THEN <<s>>
        ELSE <<SubSeq(s, 1, i - 1)>> \o Split(SubSeq(s, i + Len(sep), Len(s)), sep)

RECURSIVE Join(_, _)
Join(parts, sep) ==
    IF parts = <<>> THEN <<>>
    ELSE IF Len(parts) = 1 THEN parts[1]
    ELSE parts[1] \o sep \o Join(Tail(parts), sep)

Whitespace == {SP, NL, "\t", "\r"}

RECURSIVE LStrip(_)
LStrip(s) == IF s # <<>> /\ Head(s) \in Whitespace THEN LStrip(Tail(s)) ELSE s

RECURSIVE RStrip(_)
RStrip(s) == IF s # <<>> /\ s[Len(s)] \in Whitespace
             THEN RStrip(SubSeq(s, 1, Len(s) - 1)) ELSE s

Strip(s) == RStrip(LStrip(s))

\* str.replace(old, new, 1)
ReplaceFirst(s, old, new) ==
    LET i == Find(s, old, 1)
    IN  IF i = 0 THEN s
        ELSE SubSeq(s, 1, i - 1) \o new \o SubSeq(s, i + Len(old), Len(s))

\* the characters of a text as one string
RECURSIVE Flat(_)
Flat(s) == IF s = <<>> THEN "" ELSE Head(s) \o Flat(Tail(s))

\* sha1(code.encode()).hexdigest(), collision free
Sha1Hex(code) == "sha1<" \o Flat(code) \o ">"

----------------------------------------------------------------------------
(* The text functions of MermaidProcessor *)

\* the same scan for a pattern whose capture is greedy, ([\s\S]*): a match
\* runs to the last closing fence of the text
FindAllGreedy(s, from) ==
    LET o == Find(s, FenceOpen, from)
        closes == IF o = 0 THEN {}
                  ELSE { c \in (o + Len(FenceOpen))..Len(s) : IsAt(s, FenceClose, c) }
    IN  IF closes = {} THEN <<>>
        ELSE <<SubSeq(s, o + Len(FenceOpen), (CHOOSE c \in closes : \A e \in closes : e <= c) - 1)>>

\* re.findall(r"```mermaid\n([\s\S]*?)\n```", content): leftmost matches that do
\* not overlap, each with the shortest capture, scanning on after a match.
RECURSIVE FindAllFrom(_, _)
FindAllFrom(s, from) ==
    LET o == Find(s, FenceOpen, from)
        c == IF o = 0 THEN 0 ELSE Find(s, FenceClose, o + Len(FenceOpen))
    IN  IF o = 0 THEN <<>>
        ELSE IF c = 0 THEN FindAllFrom(s, o + 1)
        ELSE <<SubSeq(s, o + Len(FenceOpen), c - 1)>>
             \o FindAllFrom(s, c + Len(FenceClose))

extract_diagrams(text) == FindAllFrom(text, 1)

IsCodeLine(line) == (~StartsWith(line, <<PCT, PCT>>)) /\ Len(Strip(line)) > 0

\* a code that drops the directive lines and keeps the blank ones
RenderCodeKeepingBlanks(diagram) ==
    Join(SelectSeq(Split(diagram, <<NL>>), LAMBDA line : ~StartsWith(line, <<PCT, PCT>>)),
         <<NL>>)

\* render_diagram, the line that computes code
RenderCode(diagram) == Join(SelectSeq(Split(diagram, <<NL>>), IsCodeLine), <<NL>>)

\* render_diagram: output_path
RenderPath(diagram) == Sha1Hex(RenderCode(diagram)) \o ".png"

\* a diagram_code that is the whole text of the diagram, directive lines included
ContentCodeRaw(diagram) == diagram

\* process_content, the line that computes diagram_code
ContentCode(diagram) == Join(SelectSeq(Split(diagram, <<NL>>), IsCodeLine), <<NL>>)

\* a loop over the lines that passes over a line with neither marker instead
\* of ending at it
RECURSIVE ScanAllLines(_, _, _)
ScanAllLines(lines, caption, args) ==
    IF lines = <<>> THEN [caption |-> caption, args |-> args]
    ELSE IF StartsWith(Head(lines), <<PCT, PCT, BANG>>)
         THEN ScanAllLines(Tail(lines), Strip(SubSeq(Head(lines), 4, Len(Head(lines)))), args)
    ELSE IF StartsWith(Head(lines), <<PCT, PCT>>)
         THEN ScanAllLines(Tail(lines), caption, Strip(SubSeq(Head(lines), 3, Len(Head(lines)))))
    ELSE ScanAllLines(Tail(lines), caption, args)

\* a loop over the lines in which the first directive of a kind stays
RECURSIVE ScanFirstWins(_, _, _)
ScanFirstWins(lines, caption, args) ==
    IF lines = <<>> THEN [caption |-> caption, args |-> args]
    ELSE IF StartsWith(Head(lines), <<PCT, PCT, BANG>>)
         THEN ScanFirstWins(Tail(lines),
                 IF caption = <<>> THEN Strip(SubSeq(Head(lines), 4, Len(Head(lines))))
                                   ELSE caption, args)
    ELSE IF StartsWith(Head(lines), <<PCT, PCT>>)
         THEN ScanFirstWins(Tail(lines), caption,
                 IF args = <<>> THEN Strip(SubSeq(Head(lines), 3, Len(Head(lines))))
                                ELSE args)
    ELSE [caption |-> caption, args |-> args]

\* a loop over the lines that passes over a blank line
RECURSIVE ScanOverBlanks(_, _, _)
ScanOverBlanks(lines, caption, args) ==
    IF lines = <<>> THEN [caption |-> caption, args |-> args]
    ELSE IF StartsWith(Head(lines), <<PCT, PCT, BANG>>)
         THEN ScanOverBlanks(Tail(lines), Strip(SubSeq(Head(lines), 4, Len(Head(lines)))), args)
    ELSE IF StartsWith(Head(lines), <<PCT, PCT>>)
         THEN ScanOverBlanks(Tail(lines), caption, Strip(SubSeq(Head(lines), 3, Len(Head(lines)))))
    ELSE IF Len(Strip(Head(lines))) = 0
         THEN ScanOverBlanks(Tail(lines), caption, args)
    ELSE [caption |-> caption, args |-> args]

\* process_content: the loop over the lines, which ends at the first line that
\* starts with neither marker
RECURSIVE ScanDirectives(_, _, _)
ScanDirectives(lines, caption, args) ==
    IF lines = <<>> THEN [caption |-> caption, args |-> args]
    ELSE IF StartsWith(Head(lines), <<PCT, PCT, BANG>>)
         THEN ScanDirectives(Tail(lines), Strip(SubSeq(Head(lines), 4, Len(Head(lines)))), args)
    ELSE IF StartsWith(Head(lines), <<PCT, PCT>>)
         THEN ScanDirectives(Tail(lines), caption, Strip(SubSeq(Head(lines), 3, Len(Head(lines)))))
    ELSE [caption |-> caption, args |-> args]

ParseDirectives(diagram) == ScanDirectives(Split(diagram, <<NL>>), <<>>, <<>>)

\* process_content: image_ref
ImageRef(hashcode, args, caption) ==
    <<"#figure(image(", "\"", DOT, "/", hashcode \o ".png", "\"", ",", SP>> \o args
    \o <<")", ",", SP, "caption:", SP, "\"">> \o caption \o <<"\"", ")">>

FencedText(diagram) == FenceOpen \o diagram \o FenceClose

\* process_content: one iteration of the loop
SubstituteOne(text, diagram) ==
    LET d == ParseDirectives(diagram)
    IN  ReplaceFirst(text, FencedText(diagram),
                     ImageRef(Sha1Hex(ContentCode(diagram)), d.args, d.caption))

\* a loop that takes each distinct diagram text once
RECURSIVE SubstituteDistinct(_, _)
SubstituteDistinct(text, ds) ==
    IF ds = <<>> THEN text
    ELSE SubstituteDistinct(SubstituteOne(text, Head(ds)),
                            SelectSeq(Tail(ds), LAMBDA d : d # Head(ds)))

RECURSIVE SubstituteAll(_, _)
SubstituteAll(text, ds) ==
    IF ds = <<>> THEN text
    ELSE SubstituteAll(SubstituteOne(text, Head(ds)), Tail(ds))

process_content(text, ds) == SubstituteAll(text, ds)

----------------------------------------------------------------------------
(* File names: pathlib's stem and suffix *)

TYP == <<DOT, "typ">>
MTYP == <<DOT, "mtyp">>

LastDot(name) ==
    LET dots == {i \in 1..Len(name) : name[i] = DOT}
    IN  IF dots = {} THEN 0 ELSE CHOOSE i \in dots : \A j \in dots : j <= i

\* PurePath.suffix: from the last dot, unless the name starts or ends with it
Suffix(name) ==
    LET i == LastDot(name)
    IN  IF 1 < i /\ i < Len(name) THEN SubSeq(name, i, Len(name)) ELSE <<>>

\* PurePath.stem
Stem(name) ==
    LET i == LastDot(name)
    IN  IF 1 < i /\ i < Len(name) THEN SubSeq(name, 1, i - 1) ELSE name

\* an output name without the distinguishing suffix
OutputNameOfStem(name) == Stem(name) \o <<DOT, "typ">>

\* save_output: output_path (a name in the directory of file_path)
OutputName(name) == Stem(name) \o <<DOT, "rendered", DOT, "typ">>

----------------------------------------------------------------------------
(* Bounds and the inputs drawn *)

MaxBlocks == 2      \* diagram blocks of a document given to the whole script
MaxRuns == 2        \* invocations of the script on the same directory

\* names the document may have in its directory
DocNames == { <<"doc">> \o TYP, <<"doc">> \o MTYP, <<"doc", DOT, "rendered">> \o TYP,
              <<DOT, "rendered">> \o TYP, <<"doc", DOT, "txt">>, TYP }

DirNames == { <<"sub">> \o TYP }          \* a directory beside the document
MissingNames == { <<"missing">> \o TYP }  \* a name of nothing

NoFile == <<>>        \* None, where the script holds a path
LaunchDir == "launch directory"
DocumentDir == "document directory"

\* diagram texts: a line of code, with or without a caption directive before it
PipeDiagrams ==
    { code : code \in {<<"a">>, <<"b">>} }
    \cup { <<PCT, PCT, BANG, SP, "c", NL>> \o code : code \in {<<"a">>, <<"b">>} }

\* a document: a title line, then each block followed by a line of text
RECURSIVE Blocks(_)
Blocks(ds) == IF ds = <<>> THEN <<>>
              ELSE FencedText(Head(ds)) \o <<NL, "t", NL>> \o Blocks(Tail(ds))

SeqsUpTo(S, n) == UNION { [1..k -> S] : k \in 0..n }

PipeDocs == { <<"t", NL>> \o Blocks(ds) : ds \in SeqsUpTo(PipeDiagrams, MaxBlocks) }

\* how one launch of the renderer for a diagram can end: it cannot be started
\* (Popen raises), or it exits with a status, having written the image or not
RenderOutcomes ==
    { [launched |-> FALSE, returncode |-> 1, created |-> FALSE] }
    \cup { [launched |-> TRUE, returncode |-> rc, created |-> cr] :
             rc \in {0, 1}, cr \in BOOLEAN }

----------------------------------------------------------------------------
(* The script *)

Init ==
    /\ pc = "main"
    /\ run = 1
    /\ file_path = NoFile
    /\ content = <<>>
    /\ diagrams = <<>>
    /\ idx = 0
    /\ results = <<>>
    /\ processed_content = <<>>
    /\ \E name \in DocNames, doc \in PipeDocs : files = (name :> doc)
    /\ images = {}
    /\ cwd = LaunchDir
    /\ invocations = <<>>
    /\ file_ops = {}
    /\ exit_status = "none"
    /\ history = <<>>

\* validate_file_path
validate_file_path(path) ==
    /\ path \in DOMAIN files \cup DirNames
    /\ path \notin DirNames
    /\ Suffix(path) = TYP

\* what navigate_filesystem can return: None, or a listed file the user picked
Browsable == { n \in DOMAIN files : Suffix(n) \in {TYP, MTYP} }

Finish(status) ==
    /\ exit_status' = status
    /\ pc' = "done"

\* main, up to the call of process(): the path of the command line, resolved
\* and validated, or the file picked in the browser
Main ==
    /\ pc = "main"
    /\ \/ \E path \in DOMAIN files \cup DirNames \cup MissingNames :
            IF validate_file_path(path)
            THEN /\ file_path' = path
                 /\ pc' = "check_cli"
                 /\ UNCHANGED exit_status
            ELSE /\ Finish(1)
                 /\ UNCHANGED file_path
       \/ \E picked \in Browsable \cup {NoFile} :
            IF picked # NoFile
            THEN /\ file_path' = picked
                 /\ pc' = "check_cli"
                 /\ UNCHANGED exit_status
            ELSE /\ Finish(1)
                 /\ UNCHANGED file_path
    /\ UNCHANGED <<run, content, diagrams, idx, results, processed_content,
                   files, images, cwd, invocations, file_ops, history>>

\* a probe whose exit status is not looked at
CliAvailableAlways(returncode) == TRUE

\* _check_mermaid_cli: subprocess.run(..., check=True) raises on a status
\* other than 0, and the function then returns False
CliAvailable(returncode) == returncode = 0

\* the record of the --version probe
Probe(returncode) ==
    [cmd |-> "--version", stdin |-> <<>>, output_path |-> "", launched |-> TRUE,
     returncode |-> returncode, created |-> FALSE]

\* process(): _check_mermaid_cli, the --version probe
CheckMermaidCli ==
    /\ pc = "check_cli"
    /\ \E returncode \in {0, 1} :
         /\ invocations' = Append(invocations, Probe(returncode))
         /\ IF CliAvailable(returncode)
            THEN pc' = "read_file" /\ UNCHANGED exit_status
            ELSE Finish(1)
    /\ UNCHANGED <<run, file_path, content, diagrams, idx, results,
                   processed_content, files, images, cwd, file_ops, history>>

FileOp(op, name, ok) == [op |-> op, name |-> name, ok |-> ok]

\* process(): _read_file
ReadFile ==
    /\ pc = "read_file"
    /\ \/ /\ content' = files[file_path]
          /\ file_ops' = file_ops \cup {FileOp("read", file_path, TRUE)}
          /\ pc' = "extract"
          /\ UNCHANGED exit_status
       \/ /\ file_ops' = file_ops \cup {FileOp("read", file_path, FALSE)}
          /\ Finish(1)
          /\ UNCHANGED content
    /\ UNCHANGED <<run, file_path, diagrams, idx, results, processed_content,
                   files, images, cwd, invocations, history>>

\* a process() without the test for an empty list
NoDiagramsNever(ds) == FALSE

\* process(): the test "if not self.diagrams"
NoDiagrams(ds) == ds = <<>>

\* process(): where the loop over self.diagrams stands before diagram number i
LoopPc(i, ds) == IF i <= Len(ds) THEN "render" ELSE "process_content"

\* a context manager without try/finally: an exception in the block skips the
\* change back
change_working_directory_no_finally(original_dir, raised) ==
    IF raised THEN DocumentDir ELSE original_dir

\* change_working_directory, the finally clause: the directory the process is
\* in once the with block is left, by its end, by a return or by an exception.
\* original_dir is Path.cwd() at the entry of the block; the script does not
\* change directory before it.
change_working_directory(original_dir, raised) == original_dir

\* process(): extract_diagrams, the test for no diagrams, and the entry of the
\* with block
ExtractDiagrams ==
    /\ pc = "extract"
    /\ diagrams' = extract_diagrams(content)
    /\ IF NoDiagrams(diagrams')
       THEN /\ Finish(1)
            /\ UNCHANGED <<cwd, idx>>
       ELSE /\ cwd' = DocumentDir
            /\ idx' = 1
            /\ pc' = LoopPc(1, diagrams')
            /\ UNCHANGED exit_status
    /\ UNCHANGED <<run, file_path, content, results, processed_content,
                   files, images, invocations, file_ops, history>>

\* a launch that gets the code without the directive lines on standard input
LaunchWithCode(diagram, output_path, outcome) ==
    [cmd |-> "render", stdin |-> RenderCode(diagram), output_path |-> output_path,
     launched |-> outcome.launched, returncode |-> outcome.returncode,
     created |-> outcome.created]

\* the record of one launch of the renderer by render_diagram
Launch(diagram, output_path, outcome) ==
    [cmd |-> "render", stdin |-> diagram, output_path |-> output_path,
     launched |-> outcome.launched, returncode |-> outcome.returncode,
     created |-> outcome.created]

\* a render_diagram that never finds the image it rendered before
ExistsNever(output_path) == FALSE

\* render_diagram: Path(output_path).exists(), in the document's directory
Exists(output_path) == output_path \in images

\* a render_diagram that does not look at the exit status
RenderSucceededIfLaunched(outcome) == outcome.launched

\* render_diagram: the launch raised nothing and process.returncode is 0
RenderSucceeded(outcome) == outcome.launched /\ outcome.returncode = 0

\* process(): one iteration of the loop over self.diagrams, render_diagram
RenderDiagram ==
    /\ pc = "render"
    /\ idx <= Len(diagrams)
    /\ LET diagram == diagrams[idx]
           output_path == RenderPath(diagram)
       IN  IF Exists(output_path)
           THEN /\ results' = Append(results, output_path)
                /\ idx' = idx + 1
                /\ pc' = LoopPc(idx + 1, diagrams)
                /\ UNCHANGED <<images, invocations, cwd, exit_status>>
           ELSE \E outcome \in RenderOutcomes :
                  /\ invocations' =
                       Append(invocations, Launch(diagram, output_path, outcome))
                  /\ images' = IF outcome.created THEN images \cup {output_path}
                                                  ELSE images
                  /\ IF RenderSucceeded(outcome)
                     THEN /\ results' = Append(results, output_path)
                          /\ idx' = idx + 1
                          /\ pc' = LoopPc(idx + 1, diagrams)
                          /\ UNCHANGED <<cwd, exit_status>>
                     ELSE /\ cwd' = change_working_directory(LaunchDir, FALSE)
                          /\ Finish(1)
                          /\ UNCHANGED <<results, idx>>
    /\ UNCHANGED <<run, file_path, content, diagrams, processed_content,
                   files, file_ops, history>>

\* process(): process_content.  The call stands in no try block of process():
\* an exception raised in it (MemoryError on the text) leaves the with block
\* and process(), and the interpreter ends with its traceback and status 1.
ProcessContent ==
    /\ pc = "process_content"
    /\ \/ /\ processed_content' = process_content(content, diagrams)
          /\ pc' = "save_output"
          /\ UNCHANGED <<cwd, exit_status>>
       \/ /\ cwd' = change_working_directory(LaunchDir, TRUE)
          /\ Finish(1)
          /\ UNCHANGED processed_content
    /\ UNCHANGED <<run, file_path, content, diagrams, idx, results, files,
                   images, invocations, file_ops, history>>

\* process(): save_output and the end of the with block.  A write that
\* fails leaves the directory as it was, or the output file opened and empty.
SaveOutput ==
    /\ pc = "save_output"
    /\ LET output_path == OutputName(file_path)
       IN  \/ /\ files' = (output_path :> processed_content) @@ files
              /\ file_ops' = file_ops \cup {FileOp("write", output_path, TRUE)}
              /\ Finish(0)
           \/ /\ files' \in {files, (output_path :> <<>>) @@ files}
              /\ file_ops' = file_ops \cup {FileOp("write", output_path, FALSE)}
              /\ Finish(1)
    /\ cwd' = change_working_directory(LaunchDir, FALSE)
    /\ UNCHANGED <<run, file_path, content, diagrams, idx, results,
                   processed_content, images, invocations, history>>

\* the image files the current run found when it started: the directory's, less
\* those its own launches of the renderer wrote
StartImages ==
    images \ { invocations[k].output_path :
                 k \in { j \in DOMAIN invocations :
                            invocations[j].cmd = "render" /\ invocations[j].created } }

\* what a finished run leaves for the comparison with the next one: its
\* document, exit status and output, and, when it ended at a failed launch of
\* the renderer, the image files its launches before that one wrote
Summary ==
    [file_path |-> file_path, exit_status |-> exit_status,
     output |-> IF exit_status = 0 THEN <<files[OutputName(file_path)]>> ELSE <<>>,
     rendered_before_failure |->
        IF \E k \in DOMAIN invocations :
              /\ invocations[k].cmd = "render"
              /\ ~(invocations[k].launched /\ invocations[k].returncode = 0)
        THEN { invocations[k].output_path :
                 k \in { j \in DOMAIN invocations :
                           /\ invocations[j].cmd = "render"
                           /\ invocations[j].launched /\ invocations[j].returncode = 0
                           /\ invocations[j].created } }
        ELSE {}]

\* the script is started again on the same directory, as a new process in the
\* launch directory
Rerun ==
    /\ pc = "done"
    /\ run < MaxRuns
    /\ history' = <<Summary>>
    /\ run' = run + 1
    /\ pc' = "main"
    /\ file_path' = NoFile
    /\ content' = <<>>
    /\ diagrams' = <<>>
    /\ idx' = 0
    /\ results' = <<>>
    /\ processed_content' = <<>>
    /\ invocations' = <<>>
    /\ file_ops' = {}
    /\ exit_status' = "none"
    /\ cwd' = LaunchDir
    /\ UNCHANGED <<files, images>>

Next ==
    \/ Main
    \/ CheckMermaidCli
    \/ ReadFile
    \/ ExtractDiagrams
    \/ RenderDiagram
    \/ ProcessContent
    \/ SaveOutput
    \/ Rerun

Spec == Init /\ [][Next]_vars

----------------------------------------------------------------------------
(* The text functions on arbitrary documents: the steps of process() from
   extract_diagrams on, for a document text put together from pieces in any
   order, well formed or not *)

MaxPieces == 6      \* pieces of such a document

\* the two fences, a character of text, three backticks, a directive marker
Pieces == { FenceOpen, FenceClose, <<"a">>, <<BT, BT, BT>>, <<PCT, PCT>> }

RECURSIVE Concat(_)
Concat(parts) == IF parts = <<>> THEN <<>> ELSE Head(parts) \o Concat(Tail(parts))

TextDocs == { Concat(parts) : parts \in SeqsUpTo(Pieces, MaxPieces) }

ReadState(name, doc) ==
    /\ pc = "extract"
    /\ run = 1
    /\ file_path = name
    /\ content = doc
    /\ diagrams = <<>>
    /\ idx = 0
    /\ results = <<>>
    /\ processed_content = <<>>
    /\ files = (name :> doc)
    /\ images = {}
    /\ cwd = LaunchDir
    /\ invocations = <<>>
    /\ file_ops = {}
    /\ exit_status = "none"
    /\ history = <<>>

TextInit == \E doc \in TextDocs : ReadState(<<"doc">> \o TYP, doc)

TextNext ==
    \/ ExtractDiagrams
    \/ RenderDiagram
    \/ ProcessContent

SpecText == TextInit /\ [][TextNext]_vars

----------------------------------------------------------------------------
(* The text functions on pairs of diagrams: the same steps for a document of
   two blocks, each diagram any text of up to MaxLines lines *)

MaxLines == 2       \* lines of such a diagram

\* code, an args directive, a caption directive, an empty line, a blank line
DiagramLines == { <<"a">>, <<PCT, PCT, SP, "w">>, <<PCT, PCT, BANG, SP, "c">>, <<>>, <<SP>> }

LineDiagrams == { Join(ls, <<NL>>) : ls \in SeqsUpTo(DiagramLines, MaxLines) \ {<<>>} }

DiagramInit ==
    \E d1 \in LineDiagrams, d2 \in LineDiagrams :
        ReadState(<<"doc">> \o TYP, <<"t", NL>> \o Blocks(<<d1, d2>>))

SpecDiagram == DiagramInit /\ [][TextNext]_vars

----------------------------------------------------------------------------
(* The directive lines of one diagram: the same steps for a document of one
   block whose diagram is any text of up to MaxDirectiveLines lines, with two
   lines of each directive kind *)

MaxDirectiveLines == 3      \* lines of such a diagram

\* "%%! My Caption" and "%%width: 50%"
MyCaptionLine ==
    <<PCT, PCT, BANG, SP, "M", "y", SP, "C", "a", "p", "t", "i", "o", "n">>
WidthLine == <<PCT, PCT, "w", "i", "d", "t", "h", ":", SP, "5", "0", PCT>>

\* the two lines above, a second caption line, a second args line, a line of
\* code, an empty line
DirectiveLines ==
    { MyCaptionLine, WidthLine, <<PCT, PCT, BANG, "c", SP>>, <<PCT, PCT, SP, "w">>,
      <<"a">>, <<>> }

DirectiveDiagrams ==
    { Join(ls, <<NL>>) : ls \in SeqsUpTo(DirectiveLines, MaxDirectiveLines) \ {<<>>} }

DirectiveInit ==
    \E d \in DirectiveDiagrams :
        ReadState(<<"doc">> \o TYP, <<"t", NL>> \o Blocks(<<d>>))

SpecDirective == DirectiveInit /\ [][TextNext]_vars

----------------------------------------------------------------------------
(* What the claims speak of *)

\* the launches of the renderer for a diagram by the current run
Renders == SelectSeq(invocations, LAMBDA v : v.cmd = "render")

\* every such launch started, exited 0 and wrote its image
WellBehaved ==
    \A k \in DOMAIN Renders :
        Renders[k].launched /\ Renders[k].returncode = 0 /\ Renders[k].created

FailedRenders ==
    { k \in DOMAIN Renders : ~Renders[k].launched \/ Renders[k].returncode # 0 }

\* the loop of process() over the diagrams has run to its end
LoopDone ==
    /\ diagrams # <<>>
    /\ Len(results) = Len(diagrams)
    /\ pc \in {"process_content", "save_output", "done"}

\* process_content has run
Substituted ==
    \/ pc = "save_output"
    \/ pc = "done" /\ LoopDone /\ \E op \in file_ops : op.op = "write"

\* the image file names the diagrams of the run map to
Needed == { RenderPath(diagrams[i]) : i \in DOMAIN diagrams }

RECURSIVE Sorted(_)
Sorted(S) == IF S = {} THEN <<>> ELSE <<Min(S)>> \o Sorted(S \ {Min(S)})

\* where the reference constructs of a text start
RefHead == "#figure(image("
RefStarts(text) == { p \in DOMAIN text : text[p] = RefHead }

\* the image file named by each reference construct of a text, in order
RefImages(text) ==
    LET starts == Sorted(RefStarts(text))
    IN  [k \in DOMAIN starts |-> text[starts[k] + 4]]

----------------------------------------------------------------------------
(* C1 *)

\* C1: in a run that found no image file and whose renderer always exits 0 and
\* writes its image, once the loop over the diagrams is done the renderer was
\* launched exactly once for each distinct fingerprint among the extracted
\* blocks; a document of two identical blocks yields two entries, and the two
\* reference constructs of the output name the one image file.
C1_OneRenderPerFingerprint ==
    /\ (LoopDone /\ StartImages = {} /\ WellBehaved) =>
          /\ \A p \in Needed :
                Cardinality({ k \in DOMAIN Renders : Renders[k].output_path = p }) = 1
          /\ Len(Renders) = Cardinality(Needed)
    /\ \A d \in PipeDiagrams :
          (content = <<"t", NL>> \o Blocks(<<d, d>>) /\ pc # "extract") =>
             /\ diagrams = <<d, d>>
             /\ (LoopDone /\ StartImages = {} /\ WellBehaved) =>
                   /\ Len(Renders) = 1
                   /\ Renders[1].stdin = d
                   /\ results = <<Renders[1].output_path, Renders[1].output_path>>
             /\ Substituted =>
                   /\ Cardinality(RefStarts(processed_content)) = 2
                   /\ RefImages(processed_content) = results

\* a first run on two identical blocks that ended well after one launch
C1_Witness ==
    /\ pc = "done" /\ exit_status = 0 /\ run = 1
    /\ Len(diagrams) = 2 /\ diagrams[1] = diagrams[2]
    /\ StartImages = {} /\ WellBehaved
    /\ Len(Renders) = 1
    /\ RefImages(processed_content) = <<Renders[1].output_path, Renders[1].output_path>>

----------------------------------------------------------------------------
(* C2 *)

\* the run is the second on the same document, both runs ended with success,
\* and this one found every image it needs
SecondRunCached ==
    /\ pc = "done" /\ exit_status = 0
    /\ history # <<>>
    /\ history[1].file_path = file_path
    /\ history[1].exit_status = 0
    /\ Needed \subseteq StartImages

\* C2 as stated: the second run writes the same output and launches no
\* subprocess at all.
C2_Original ==
    SecondRunCached =>
       /\ <<files[OutputName(file_path)]>> = history[1].output
       /\ invocations = <<>>

\* C2, amended: a run that finds every image it needs launches the renderer
\* for no diagram; the second run on the same document writes the same output,
\* and its one subprocess is the --version probe.
C2_SecondRunProbesOnly ==
    /\ (diagrams # <<>> /\ Needed \subseteq StartImages) => Renders = <<>>
    /\ SecondRunCached =>
          /\ <<files[OutputName(file_path)]>> = history[1].output
          /\ invocations = <<Probe(0)>>

C2_Witness ==
    /\ SecondRunCached
    /\ run = 2
    /\ Cardinality(Needed) = 2

----------------------------------------------------------------------------
(* C3 *)

\* the reference construct process_content builds for a diagram
RefText(d) ==
    ImageRef(Sha1Hex(ContentCode(d)), ParseDirectives(d).args, ParseDirectives(d).caption)

Occurrences(text, pat) == { p \in DOMAIN text : IsAt(text, pat, p) }

\* C3: the text process_content returns holds no occurrence of the fenced text
\* of any extracted block, and exactly one reference construct for each
\* extracted block: as many constructs as blocks, the construct of each block
\* as often as there are blocks that yield it, also for identical blocks.
C3_SubstitutionComplete ==
    Substituted =>
       /\ \A i \in DOMAIN diagrams :
             Occurrences(processed_content, FencedText(diagrams[i])) = {}
       /\ Cardinality(RefStarts(processed_content)) = Len(diagrams)
       /\ \A i \in DOMAIN diagrams :
             Cardinality(Occurrences(processed_content, RefText(diagrams[i])))
                = Cardinality({ j \in DOMAIN diagrams :
                                  RefText(diagrams[j]) = RefText(diagrams[i]) })

\* substitution done on a text with two identical blocks
C3_Witness ==
    /\ Substituted
    /\ Len(diagrams) = 2
    /\ diagrams[1] = diagrams[2]
    /\ diagrams[1] # <<>>
    /\ Cardinality(RefStarts(processed_content)) = 2

----------------------------------------------------------------------------
(* C6 *)

Opens(s) == Occurrences(s, FenceOpen)

\* the closing fences that can end a block opened at p
ClosesOf(s, p) == { q \in Occurrences(s, FenceClose) : q >= p + Len(FenceOpen) }

\* The fenced blocks of a text: an opening fence starts a block when a closing
\* fence follows it and it lies in no block that starts before it; the block
\* ends with the first closing fence after its opening fence.
BlockStarts(s) ==
    CHOOSE B \in SUBSET Opens(s) :
        \A p \in Opens(s) :
            p \in B <=> /\ ClosesOf(s, p) # {}
                        /\ \A b \in B :
                              b < p => Min(ClosesOf(s, b)) + Len(FenceClose) <= p

\* the text between the fences of each block, from left to right
BlockTexts(s) ==
    LET starts == Sorted(BlockStarts(s))
    IN  [k \in DOMAIN starts |->
            SubSeq(s, starts[k] + Len(FenceOpen), Min(ClosesOf(s, starts[k])) - 1)]

\* extract_diagrams has just run
Extracted == pc # "extract" /\ results = <<>> /\ invocations = <<>>

\* C6: extract_diagrams returns one entry for each fenced block of the text,
\* from left to right, each the exact text between the fences of its block,
\* identical blocks as separate entries.
C6_ExtractsEveryBlock ==
    Extracted =>
       /\ Len(diagrams) = Cardinality(BlockStarts(content))
       /\ diagrams = BlockTexts(content)

\* two identical blocks, extracted as two entries, in a text with a third
\* opening fence that starts no block
C6_Witness ==
    /\ Extracted
    /\ Len(diagrams) = 2
    /\ diagrams[1] = diagrams[2]
    /\ Cardinality(Opens(content)) = 3

----------------------------------------------------------------------------
(* C5 *)

LinesOf(d) == Split(d, <<NL>>)

MarkerLine(l) == Len(l) >= 2 /\ l[1] = PCT /\ l[2] = PCT

BlankLine(l) == \A k \in DOMAIN l : l[k] \in Whitespace

\* the lines left when every line that starts with the marker and every empty
\* or whitespace-only line is removed
Significant(d) == SelectSeq(LinesOf(d), LAMBDA l : ~MarkerLine(l) /\ ~BlankLine(l))

\* C5: blocks whose significant lines are equal get the same image path from
\* render_diagram, and the reference constructs process_content writes name,
\* block by block, the paths render_diagram returned.
C5_SameSignificantSameImage ==
    /\ \A j \in DOMAIN results : \A i \in 1..(j - 1) :
          Significant(diagrams[i]) = Significant(diagrams[j]) => results[i] = results[j]
    /\ Substituted => RefImages(processed_content) = results

\* two blocks with the same code, different directive lines and one image
C5_Witness ==
    /\ Substituted
    /\ Len(diagrams) = 2
    /\ Significant(diagrams[1]) = <<<<"a">>>>
    /\ ParseDirectives(diagrams[1]).caption # ParseDirectives(diagrams[2]).caption
    /\ ParseDirectives(diagrams[1]).args # ParseDirectives(diagrams[2]).args
    /\ results[1] = results[2]

----------------------------------------------------------------------------
(* C10 *)

\* the leading run of directive lines of a diagram
LeadingRun(d) ==
    LET ls == LinesOf(d)
        n == CHOOSE k \in 0..Len(ls) :
                /\ \A j \in 1..k : MarkerLine(ls[j])
                /\ k < Len(ls) => ~MarkerLine(ls[k + 1])
    IN  SubSeq(ls, 1, n)

\* the marker lines that come after a line of code
LateMarkerLines(d) ==
    LET ls == LinesOf(d)
        code == { k \in DOMAIN ls : ~MarkerLine(ls[k]) /\ ~BlankLine(ls[k]) }
        late == { k \in DOMAIN ls : MarkerLine(ls[k]) /\ \E c \in code : c < k }
        order == Sorted(late)
    IN  [k \in DOMAIN order |-> ls[order[k]]]

\* the args and the caption of each reference construct of a text, in order
RefDirectives(text) ==
    LET starts == Sorted(RefStarts(text))
    IN  [k \in DOMAIN starts |->
            LET a == starts[k] + 8
                c == Find(text, <<"caption:">>, a) + 3
            IN  [args |-> SubSeq(text, a, Find(text, <<")">>, a) - 1),
                 caption |-> SubSeq(text, c, Find(text, <<"\"">>, c) - 1)]]

\* the args and caption written for the blocks depend on the leading run only
LeadingRunDecides ==
    Substituted =>
       \A j \in DOMAIN diagrams : \A i \in 1..(j - 1) :
          LeadingRun(diagrams[i]) = LeadingRun(diagrams[j]) =>
             RefDirectives(processed_content)[i] = RefDirectives(processed_content)[j]

\* C10 as stated: the args and caption depend on the leading run only, and a
\* late marker line is part of the diagram text: blocks that get one image
\* have the same late marker lines.
C10_Original ==
    /\ LeadingRunDecides
    /\ \A j \in DOMAIN results : \A i \in 1..(j - 1) :
          results[i] = results[j] =>
             LateMarkerLines(diagrams[i]) = LateMarkerLines(diagrams[j])

\* C10, amended: the args and caption depend on the leading run only; a late
\* marker line is in the raw text the renderer gets on standard input, and it
\* is left out of the fingerprint: blocks that differ in marker lines only get
\* one image path.
C10_LateMarkerLineIsNoDirective ==
    /\ LeadingRunDecides
    /\ \A k \in DOMAIN Renders : \E i \in DOMAIN diagrams : Renders[k].stdin = diagrams[i]
    /\ \A j \in DOMAIN results : \A i \in 1..(j - 1) :
          SelectSeq(LinesOf(diagrams[i]), LAMBDA l : ~MarkerLine(l))
             = SelectSeq(LinesOf(diagrams[j]), LAMBDA l : ~MarkerLine(l))
          => results[i] = results[j]

\* a block with an args line after its code, written without args, next to a
\* block with the same args line before its code, written with them
C10_Witness ==
    /\ Substituted
    /\ Len(diagrams) = 2
    /\ LateMarkerLines(diagrams[1]) = <<<<PCT, PCT, SP, "w">>>>
    /\ LeadingRun(diagrams[2]) = <<<<PCT, PCT, SP, "w">>>>
    /\ RefDirectives(processed_content)[1].args = <<>>
    /\ RefDirectives(processed_content)[2].args = <<"w">>
    /\ Renders # <<>> /\ Renders[1].stdin = diagrams[1]
    /\ results[1] = results[2]

----------------------------------------------------------------------------
(* C4, C7, C8, C9 *)

Writes == { op \in file_ops : op.op = "write" }

ProbeFailed ==
    \E k \in DOMAIN invocations :
        invocations[k].cmd = "--version" /\ invocations[k].returncode # 0

ReadFailed == \E op \in file_ops : op.op = "read" /\ ~op.ok

WriteFailed == \E op \in Writes : ~op.ok

\* the document was read and holds no diagram block
NoneFound ==
    /\ pc = "done"
    /\ FileOp("read", file_path, TRUE) \in file_ops
    /\ diagrams = <<>>

\* no file was selected, or the path given was not valid
NoSelection == pc = "done" /\ file_path = NoFile

\* C4: once a launch of the renderer has failed (it could not be started or
\* exited nonzero), the run is over with exit status 1, process_content has
\* not run and no output document was written; process_content runs only
\* after render_diagram has succeeded for every diagram.
C4_RenderFailureAborts ==
    /\ FailedRenders # {} =>
          /\ pc = "done"
          /\ exit_status = 1
          /\ processed_content = <<>>
          /\ Writes = {}
    /\ (pc \in {"process_content", "save_output"} \/ processed_content # <<>> \/ Writes # {}) =>
          /\ LoopDone
          /\ FailedRenders = {}

\* a run that rendered its first diagram and failed on the second, in a
\* directory where an earlier run had written the output document
C4_Witness ==
    /\ pc = "done"
    /\ FailedRenders # {}
    /\ Len(diagrams) = 2 /\ Len(results) = 1
    /\ history # <<>> /\ history[1].exit_status = 0
    /\ files[OutputName(file_path)] = history[1].output[1]

\* C7: a finished run has exit status 1 when the probe failed, the document
\* could not be read, it holds no diagram, a render failed, the output could
\* not be written, or no valid file was selected; it has exit status 0 only
\* when the output document was written with the substituted text.
C7_ExitStatus ==
    pc = "done" =>
       /\ exit_status \in {0, 1}
       /\ (ProbeFailed \/ ReadFailed \/ NoneFound \/ FailedRenders # {}
             \/ WriteFailed \/ NoSelection) => exit_status = 1
       /\ exit_status = 0 =>
             /\ Substituted
             /\ FileOp("write", OutputName(file_path), TRUE) \in file_ops
             /\ files[OutputName(file_path)] = processed_content

\* a run that rendered everything and failed to write the output
C7_Witness ==
    /\ pc = "done"
    /\ WriteFailed
    /\ exit_status = 1
    /\ LoopDone /\ FailedRenders = {}

\* C8: when the --version probe has failed, the run is over with exit status
\* 1 and has done nothing else: no read of the document, no launch of the
\* renderer for a diagram, no image written, no output document written.
C8_ProbeFailureTouchesNothing ==
    ProbeFailed =>
       /\ pc = "done"
       /\ exit_status = 1
       /\ file_ops = {}
       /\ content = <<>> /\ diagrams = <<>> /\ processed_content = <<>>
       /\ Len(invocations) = 1
       /\ images = StartImages
       /\ cwd = LaunchDir

\* a failed probe in a second run, after a first run that left an image
C8_Witness ==
    /\ ProbeFailed
    /\ pc = "done"
    /\ run = 2
    /\ images # {}

\* C9: the output name is the stem of the input name with .rendered.typ, it
\* is never the input name, the only file a run writes is the one of that
\* name, and the input file still holds the text the run read from it, for
\* every name main accepts.
C9_InputNeverOverwritten ==
    /\ file_path # NoFile =>
          /\ Suffix(file_path) \in {TYP, MTYP}
          /\ OutputName(file_path) # file_path
          /\ OutputName(file_path) = Stem(file_path) \o <<DOT, "rendered">> \o TYP
    /\ \A op \in Writes : op.name # file_path /\ op.name = OutputName(file_path)
    /\ FileOp("read", file_path, TRUE) \in file_ops => files[file_path] = content

\* a run on a .mtyp document picked in the browser that wrote its output
C9_Witness ==
    /\ pc = "done" /\ exit_status = 0
    /\ Suffix(file_path) = MTYP
    /\ files[file_path] = content
    /\ files[OutputName(file_path)] = processed_content
    /\ processed_content # content

----------------------------------------------------------------------------
(* C11, C12 *)

CaptionLine(l) == MarkerLine(l) /\ Len(l) >= 3 /\ l[3] = BANG

ArgsLine(l) == MarkerLine(l) /\ ~CaptionLine(l)

\* the text of a line after its first n characters, trimmed
Remainder(l, n) == Strip(SubSeq(l, n + 1, Len(l)))

\* the trimmed remainder of the last line of a kind among lines; the empty
\* string when no line is of that kind
LastOf(ls, Kind(_), n) ==
    LET of == { k \in DOMAIN ls : Kind(ls[k]) }
    IN  IF of = {} THEN <<>>
        ELSE Remainder(ls[CHOOSE k \in of : \A j \in of : j <= k], n)

\* the caption and the args a run of directive lines stands for
DirectivesOf(ls) ==
    [args |-> LastOf(ls, ArgsLine, 2), caption |-> LastOf(ls, CaptionLine, 3)]

\* C11: the caption written for a block is the trimmed remainder of the last
\* '%%!' line of its leading directive run, the args the trimmed remainder of
\* the last line of the run that starts with '%%' and not '%%!', each the
\* empty string when the run has no such line; for the block '%%! My Caption',
\* '%%width: 50%', code they are 'My Caption' and 'width: 50%'.
C11_LastDirectiveWins ==
    Substituted =>
       /\ \A i \in DOMAIN diagrams :
             RefDirectives(processed_content)[i] = DirectivesOf(LeadingRun(diagrams[i]))
       /\ diagrams = <<Join(<<MyCaptionLine, WidthLine, <<"a">>>>, <<NL>>)>> =>
             RefDirectives(processed_content)[1] =
                [args |-> <<"w", "i", "d", "t", "h", ":", SP, "5", "0", PCT>>,
                 caption |-> <<"M", "y", SP, "C", "a", "p", "t", "i", "o", "n">>]

\* a block of two caption lines and code: the second caption, and no args
C11_Witness ==
    /\ Substituted
    /\ diagrams = <<Join(<<<<PCT, PCT, BANG, "c", SP>>, MyCaptionLine, <<"a">>>>, <<NL>>)>>
    /\ RefDirectives(processed_content)[1] =
          [args |-> <<>>, caption |-> <<"M", "y", SP, "C", "a", "p", "t", "i", "o", "n">>]

\* the lines of a diagram before its first line that is neither blank nor a
\* directive line
LeadingPart(d) ==
    LET ls == LinesOf(d)
        n == CHOOSE k \in 0..Len(ls) :
                /\ \A j \in 1..k : MarkerLine(ls[j]) \/ BlankLine(ls[j])
                /\ k < Len(ls) => ~(MarkerLine(ls[k + 1]) \/ BlankLine(ls[k + 1]))
    IN  SubSeq(ls, 1, n)

\* C12 as stated: blank lines do not end the scan, so the directives written
\* for a block are those of its whole leading part, the directive lines after
\* a blank line included.
C12_Original ==
    Substituted =>
       \A i \in DOMAIN diagrams :
          RefDirectives(processed_content)[i] = DirectivesOf(LeadingPart(diagrams[i]))

\* C12, amended: the scan ends at the first line that does not start with
\* '%%', a blank line included: the directives written for a block whose
\* directive lines are followed by a blank line are those of the lines before
\* that blank line, whatever comes after it.
C12_BlankLineEndsScan ==
    Substituted =>
       \A i \in DOMAIN diagrams :
          \A k \in DOMAIN LinesOf(diagrams[i]) :
             (/\ BlankLine(LinesOf(diagrams[i])[k])
              /\ \A j \in 1..(k - 1) : MarkerLine(LinesOf(diagrams[i])[j]))
             => RefDirectives(processed_content)[i]
                   = DirectivesOf(SubSeq(LinesOf(diagrams[i]), 1, k - 1))

\* a caption line, an empty line, an args line: the caption is written, the
\* args are not
C12_Witness ==
    /\ Substituted
    /\ diagrams = <<Join(<<MyCaptionLine, <<>>, WidthLine>>, <<NL>>)>>
    /\ RefDirectives(processed_content)[1] =
          [args |-> <<>>, caption |-> <<"M", "y", SP, "C", "a", "p", "t", "i", "o", "n">>]

----------------------------------------------------------------------------
(* C13 *)

\* the steps of process() inside the with block
InScope == pc \in {"render", "process_content", "save_output"}

\* the with block was entered and left by an exception of process_content
Raised ==
    /\ pc = "done"
    /\ LoopDone
    /\ FailedRenders = {}
    /\ ~\E op \in file_ops : op.op = "write"

\* C13: the process is in the document's directory exactly during the render,
\* substitute and save steps, and in the directory it was started in at every
\* other step, so also when process() is over: after a success, a failed
\* render, a failed save, or an exception raised in the with block.
C13_DirectoryRestored ==
    /\ cwd \in {LaunchDir, DocumentDir}
    /\ InScope <=> cwd = DocumentDir
    /\ (pc = "done" /\ (exit_status = 0 \/ FailedRenders # {} \/ WriteFailed \/ Raised))
          => cwd = LaunchDir

\* a run whose two renders went well and whose substitution raised
C13_Witness ==
    /\ Raised
    /\ Len(Renders) = 2
    /\ exit_status = 1
    /\ cwd = LaunchDir

----------------------------------------------------------------------------
(* C14 *)

\* the ways to match the launches of the renderer, in their order, with
\* blocks the loop has reached, in extraction order, each block at most once
Attempts ==
    { f \in [DOMAIN Renders -> DOMAIN diagrams] :
        /\ \A k \in DOMAIN Renders :
              /\ Renders[k].stdin = diagrams[f[k]]
              /\ f[k] <= Len(results) + 1
        /\ \A k \in DOMAIN Renders : \A j \in 1..(k - 1) : f[j] < f[k] }

\* C14: the launches of the renderer of a run are for blocks in extraction
\* order, no block more than once; a launch that fails is the last of the run,
\* it is for the block after those that succeeded, and the run is over.
C14_InOrderOnceStopAtFailure ==
    /\ Attempts # {}
    /\ Len(Renders) <= Len(diagrams)
    /\ \A k \in FailedRenders :
          /\ k = Len(Renders)
          /\ pc = "done" /\ exit_status = 1
          /\ \A f \in Attempts : f[k] = Len(results) + 1

\* two blocks with different images, the launch for the first failed, none
\* for the second
C14_Witness ==
    /\ pc = "done"
    /\ Len(diagrams) = 2
    /\ RenderPath(diagrams[1]) # RenderPath(diagrams[2])
    /\ Len(Renders) = 1
    /\ FailedRenders = {1}
    /\ Renders[1].stdin = diagrams[1]

----------------------------------------------------------------------------
(* C15 *)

\* the image file of the block the loop stands before is in the directory
CacheHit == pc = "render" /\ RenderPath(diagrams[idx]) \in images

\* the step launches the renderer for a diagram
Launches ==
    /\ Len(invocations') = Len(invocations) + 1
    /\ invocations'[Len(invocations')].cmd = "render"

----------------------------------------------------------------------------
(* C16 *)

\* every launch of the renderer for a diagram that exited 0 wrote its image
CreatesOnSuccess ==
    \A k \in DOMAIN Renders :
        (Renders[k].launched /\ Renders[k].returncode = 0) => Renders[k].created

\* C16: when a run ended with success and its renderer wrote the image
\* whenever it exited 0, the written output document has a reference construct
\* for every block and each names an image file that is in the directory.
C16_ReferencesExist ==
    (pc = "done" /\ exit_status = 0 /\ CreatesOnSuccess) =>
       LET refs == RefImages(files[OutputName(file_path)])
       IN  /\ Len(refs) = Len(diagrams)
           /\ \A k \in DOMAIN refs : refs[k] \in images

\* a successful run on two blocks with caption lines and different code, both
\* rendered by this run
C16_Witness ==
    /\ pc = "done" /\ exit_status = 0 /\ CreatesOnSuccess
    /\ Len(Renders) = 2
    /\ \A i \in DOMAIN diagrams : ParseDirectives(diagrams[i]).caption # <<>>
    /\ Cardinality({ RefImages(files[OutputName(file_path)])[k] : k \in 1..2 }) = 2

----------------------------------------------------------------------------
(* C17 *)

\* the image file name of each block
Paths == [i \in DOMAIN diagrams |-> RenderPath(diagrams[i])]

\* the first block, in document order, with the image file name p
FirstWith(paths, p) == Min({ i \in DOMAIN paths : paths[i] = p })

\* C17: in a run that found no image and whose renderer writes the image
\* whenever it exits 0, each launch gets on standard input the whole raw text,
\* directive lines included, of the first block with its fingerprint, its
\* output name is the digest of the significant lines only, there is one
\* launch per fingerprint, and no later block with that fingerprint and a
\* different raw text is ever the input of a launch.
C17_FirstBlockIsRendered ==
    (Renders # <<>> /\ StartImages = {} /\ CreatesOnSuccess) =>
       LET paths == Paths
           renders == Renders
       IN  /\ \A k \in DOMAIN renders :
                 /\ renders[k].stdin = diagrams[FirstWith(paths, renders[k].output_path)]
                 /\ renders[k].output_path
                       = Sha1Hex(Join(Significant(renders[k].stdin), <<NL>>)) \o ".png"
                 /\ \A j \in 1..(k - 1) : renders[j].output_path # renders[k].output_path
           /\ \A i \in DOMAIN diagrams :
                 diagrams[i] # diagrams[FirstWith(paths, paths[i])] =>
                    \A k \in DOMAIN renders : renders[k].stdin # diagrams[i]

\* two blocks with the same code: the first, with a caption line, was rendered;
\* the second, with an args line, was not, and both references name the image
C17_Witness ==
    /\ Substituted
    /\ CreatesOnSuccess
    /\ diagrams = << <<PCT, PCT, BANG, SP, "c", NL, "a">>, <<PCT, PCT, SP, "w", NL, "a">> >>
    /\ Len(Renders) = 1
    /\ Renders[1].stdin = diagrams[1]
    /\ results[1] = results[2]

----------------------------------------------------------------------------
(* C18 *)

\* the run before this one wrote image files and ended at a failed launch of
\* the renderer
AfterAbort == history # <<>> /\ history[1].rendered_before_failure # {}

\* C18: a run that ended at a failed launch has written no output document
\* and every image file its launches wrote is in the directory; in the run
\* after it those image files are still there, and no block whose image is
\* among them is given to the renderer: its path is returned at once.
C18_NoRollback ==
    /\ (pc = "done" /\ FailedRenders # {}) =>
          /\ exit_status = 1
          /\ Writes = {}
          /\ \A k \in DOMAIN Renders :
                Renders[k].created => Renders[k].output_path \in images
    /\ AfterAbort =>
          /\ history[1].output = <<>>
          /\ history[1].rendered_before_failure \subseteq images
          /\ \A k \in DOMAIN Renders : Renders[k].output_path \notin history[1].rendered_before_failure
          /\ \A i \in DOMAIN results :
                RenderPath(diagrams[i]) \in history[1].rendered_before_failure =>
                   results[i] = RenderPath(diagrams[i])

\* a run after one that rendered the first block and failed at the second:
\* the first block is passed without a launch, the second is rendered
C18_Witness ==
    /\ AfterAbort
    /\ history[1].file_path = file_path
    /\ Len(diagrams) = 2 /\ Len(results) = 2
    /\ history[1].rendered_before_failure = {results[1]}
    /\ Len(Renders) = 1
    /\ Renders[1].stdin = diagrams[2]
    /\ Renders[1].output_path # results[1]

====
